---- MODULE Spec2Model ----
(***************************************************************************)
(* RippleGrid.svelte: a dot lattice on a canvas, perturbed by ripples that *)
(* pointer moves, clicks and an optional interval timer insert.            *)
(*                                                                         *)
(* Units.  Time is in milliseconds (performance.now()).  fadeSeconds holds *)
(* the prop in thousandths of a second, so the code's fadeSeconds * 1000   *)
(* is the variable itself.  Strengths are in tenths (1 -> 10, 1.6 -> 16,   *)
(* 0.9 -> 9, the 1.1 threshold -> 11).  Grid coordinates are in half       *)
(* pixels, because the centring offset (W - (cols-1)*s) / 2 may be a half. *)
(* dpr is in hundredths.  In a draw pass distances (d, R, sigma) are in    *)
(* tenths of a pixel and the weights, responses, radii and opacities in    *)
(* thousandths; Math.exp and Math.hypot are computed in integers, to       *)
(* within a few thousandths and a tenth of a pixel.                        *)
(*                                                                         *)
(* requestAnimationFrame and setInterval hand out handles; the model       *)
(* reuses a handle once it is neither pending nor held in raf/autoTimer,   *)
(* which no code path can tell from the browser's ever-growing ids.        *)
(***************************************************************************)
EXTENDS Integers, Sequences, FiniteSets, TLC

VARIABLES
    spacing, fadeSeconds, auto, autoEveryMs,   \* props (lines 3-13)
    reduceMotion, hasContext2d,                \* environment
    phase, clock,
    ctx, dpr, width, height, backing,
    points, ripples,
    raf, autoTimer, lastEmit,
    frameReqs, intervals, roActive, listeners,
    frames, last, moves,
    painted                                    \* what the running callback drew

props == <<spacing, fadeSeconds, auto, autoEveryMs>>
env == <<reduceMotion, hasContext2d>>
geom == <<ctx, dpr, width, height, backing, points>>
store == <<ripples, lastEmit>>
sched == <<raf, autoTimer, frameReqs, intervals>>
hooks == <<roActive, listeners>>
vars == <<props, env, phase, clock, geom, store, sched, hooks, frames, last, moves,
          painted>>

----------------------------------------------------------------------------
\* Bounds of the model
MaxTime == 150
MaxRipples == 3
MaxFrames == 2

\* Inputs the environment may supply
Steps == {30}
FadeChoices == {0, 90, 100}
AutoEveryChoices == {90}
SpacingChoices == {26}
\* <<window.innerWidth, window.innerHeight>> of the window the page runs in
InnerSize == <<40, 13>>
\* <<clientWidth, clientHeight, devicePixelRatio, innerWidth, innerHeight>>
\* read by one resize
ResizeInputs == {<<26, 52, 150>> \o InnerSize}
PointerPos == {<<13, 26>>}
\* percent of width and height the drifting auto pulse may land on
AutoDrift == {<<35, 55>>}

\* Program constants
RateLimitMs == 90
BypassStrength == 11
MoveStrength == 10
ClickStrength == 16
AutoStrength == 9
GraceTenths == 12
\* defaults of the drawing props, and the literals of lines 114-115
BaseRadius == 1000
Amplitude == 2400
RippleSpeed == 240
RippleWidth == 18
MinRadius == 200
FloorOpacity == 300
OpacitySpan == 700

----------------------------------------------------------------------------
Max(a, b) == IF a >= b THEN a ELSE b
Min(a, b) == IF a <= b THEN a ELSE b

\* Math.exp(-x) for x >= 0, x and the result in thousandths: the Taylor
\* polynomial of degree 3 at x / 8, raised to the 8th power; below half a
\* thousandth from x = 8 on.
ExpNeg(x) ==
    IF x >= 8000 THEN 0
    ELSE LET y == x \div 8
             t == 1000 - y + (y * y) \div 2000 - (y * y * y) \div 6000000
             sq(a) == (a * a) \div 1000
         IN  sq(sq(sq(t)))

\* the root of v rounded down, given the root s of v \div 4 doubled
RootStep(s, v) == IF (s + 1) * (s + 1) <= v THEN s + 1 ELSE s

\* Math.sqrt(v), rounded down
RECURSIVE Root(_)
Root(v) == IF v < 2 THEN v ELSE RootStep(2 * Root(v \div 4), v)

\* Math.hypot(dx, dy), rounded down
hypot(dx, dy) == Root(dx * dx + dy * dy)

RECURSIVE SumSeq(_)
SumSeq(sq) == IF sq = <<>> THEN 0 ELSE Head(sq) + SumSeq(Tail(sq))

\* Math.max folded over sq, starting from `from`
RECURSIVE MaxSeq(_, _)
MaxSeq(sq, from) == IF sq = <<>> THEN from ELSE MaxSeq(Tail(sq), Max(from, Head(sq)))

\* Math.ceil(a / b) for a >= 0, b > 0
Ceil(a, b) == (a + b - 1) \div b

\* The handle a scheduler returns: one that is not in use.
NewHandle(used) == CHOOSE h \in 1..(Cardinality(used) + 1) :
                       /\ h \notin used
                       /\ \A k \in 1..(h - 1) : k \in used

----------------------------------------------------------------------------
\* buildGrid anchored at the origin instead of centred
buildGridAnchored(w, h, s) ==
    [i \in 1..(Ceil(w, s) * Ceil(h, s)) |->
        [x |-> 2 * ((i - 1) % Ceil(w, s)) * s,
         y |-> 2 * ((i - 1) \div Ceil(w, s)) * s]]

\* buildGrid counting columns and rows with Math.floor
buildGridFloor(w, h, s) ==
    LET cols == w \div s
        rows == h \div s
        offsetX2 == w - (cols - 1) * s
        offsetY2 == h - (rows - 1) * s
    IN  [i \in 1..(rows * cols) |->
            [x |-> offsetX2 + 2 * ((i - 1) % cols) * s,
             y |-> offsetY2 + 2 * ((i - 1) \div cols) * s]]

\* buildGrid (lines 47-59), coordinates in half pixels, row by row.
buildGrid(w, h, s) ==
    LET cols == Ceil(w, s)
        rows == Ceil(h, s)
        offsetX2 == w - (cols - 1) * s
        offsetY2 == h - (rows - 1) * s
    IN  [i \in 1..(rows * cols) |->
            [x |-> offsetX2 + 2 * ((i - 1) % cols) * s,
             y |-> offsetY2 + 2 * ((i - 1) \div cols) * s]]

\* dpr = Math.max(1, Math.min(2, window.devicePixelRatio || 1)) (line 31)
capDpr(d) == Max(100, Min(200, IF d = 0 THEN 100 ELSE d))

\* container.clientWidth || window.innerWidth (lines 32-33)
orInner(c, inner) == IF c # 0 THEN c ELSE inner

\* resize (lines 29-45).  getContext('2d') yields null when the surface has
\* no 2D context, and ctx.setTransform then throws before buildGrid runs.
resize(in) ==
    LET w == orInner(in[1], in[4])
        h == orInner(in[2], in[5])
        d == in[3]
    IN  /\ dpr' = capDpr(d)
        /\ width' = w
        /\ height' = h
        /\ backing' = <<(w * capDpr(d)) \div 100, (h * capDpr(d)) \div 100>>
        /\ ctx' = hasContext2d
        /\ points' = IF hasContext2d THEN buildGrid(w, h, spacing) ELSE points

----------------------------------------------------------------------------
\* riplesCleanup with the filter's result dropped
riplesCleanupUnassigned(rs, cutoff) == rs

\* riplesCleanup keeping r.t >= cutoff
RECURSIVE riplesCleanupInclusive(_, _)
riplesCleanupInclusive(rs, cutoff) ==
    IF rs = <<>> THEN <<>>
    ELSE IF 10 * Head(rs).t >= cutoff
         THEN <<Head(rs)>> \o riplesCleanupInclusive(Tail(rs), cutoff)
         ELSE riplesCleanupInclusive(Tail(rs), cutoff)

\* riplesCleanup (lines 72-74): filter keeps r.t > cutoff, in order.
\* The cutoff is in tenths of a millisecond, so that 1.2 * fade is exact.
RECURSIVE riplesCleanup(_, _)
riplesCleanup(rs, cutoff) ==
    IF rs = <<>> THEN <<>>
    ELSE IF 10 * Head(rs).t > cutoff
         THEN <<Head(rs)>> \o riplesCleanup(Tail(rs), cutoff)
         ELSE riplesCleanup(Tail(rs), cutoff)

\* the cutoff with the fade left in seconds: t - fadeSeconds * 1.2
pruneCutoffSeconds(t, fade) == 10 * t - (fade * GraceTenths) \div 1000

\* cutoff = t - fadeSeconds * 1000 * 1.2 (line 68)
pruneCutoff(t, fade) == 10 * t - fade * GraceTenths

\* the rate limiter with the strength test at 1 instead of 1.1
rateLimitedBelowOne(t, le, strength) == t - le < RateLimitMs /\ strength < MoveStrength

\* the rate limiter without the strength exemption
rateLimitedNoBypass(t, le, strength) == t - le < RateLimitMs

\* the rate limiter with <= for <
rateLimitedInclusive(t, le, strength) == t - le <= RateLimitMs /\ strength < BypassStrength

\* the early return of addRipple (line 64)
rateLimited(t, le, strength) == t - le < RateLimitMs /\ strength < BypassStrength

\* addRipple stamping lastEmit before the rate limiter's early return
addRippleStampFirst(x, y, strength) ==
    /\ lastEmit' = clock
    /\ ripples' = IF rateLimited(clock, lastEmit, strength)
                  THEN ripples
                  ELSE riplesCleanup(
                           Append(ripples, [x |-> x, y |-> y, t |-> clock,
                                            strength |-> strength]),
                           pruneCutoff(clock, fadeSeconds))

\* addRipple (lines 61-70) at the current clock reading
addRipple(x, y, strength) ==
    LET t == clock IN
    IF rateLimited(t, lastEmit, strength)
    THEN UNCHANGED store
    ELSE /\ lastEmit' = t
         /\ ripples' = riplesCleanup(
                Append(ripples, [x |-> x, y |-> y, t |-> t, strength |-> strength]),
                pruneCutoff(t, fadeSeconds))

\* the store stays within the model's bound
Room == Len(ripples') <= MaxRipples

\* what the latest insertion attempt did to the store, and whether any
\* attempt so far was accepted (any) or came from the pointer (ptr)
Outcome(op, strength) ==
    [op |-> op,
     acc |-> ~rateLimited(clock, lastEmit, strength),
     pruned |-> IF rateLimited(clock, lastEmit, strength) THEN 0
                ELSE Len(ripples) + 1 - Len(ripples'),
     any |-> last.any \/ ~rateLimited(clock, lastEmit, strength),
     ptr |-> last.ptr \/ op \in {"move", "click"}]

----------------------------------------------------------------------------
\* the live ripples, found by leaving the loop at the first faded one
liveIndicesBreak(rs, t, fade) ==
    SelectSeq([i \in 1..Len(rs) |-> i],
              LAMBDA i : \A j \in 1..i : ~(t - rs[j].t > fade))

\* the store positions of the ripples the pass keeps (lines 91-93):
\* age > fadeSeconds is skipped
liveIndices(rs, t, fade) ==
    SelectSeq([i \in 1..Len(rs) |-> i], LAMBDA i : ~(t - rs[i].t > fade))

\* active (lines 90-100): ring radius R = age * rippleSpeed, sigma, and the
\* weight w = Math.exp(-age / fadeSeconds) * (r.strength || 1), which is NaN
\* for age 0 and fadeSeconds 0.  i is the ripple's position in the store.
active(rs, t, fade) ==
    LET idx == liveIndices(rs, t, fade)
    IN  [k \in 1..Len(idx) |->
            LET r == rs[idx[k]]
            IN  [i |-> idx[k],
                 x |-> r.x,
                 y |-> r.y,
                 R |-> ((t - r.t) * RippleSpeed) \div 100,
                 sigma |-> 10 * RippleWidth,
                 nan |-> fade = 0,
                 w |-> IF fade = 0 THEN 0
                       ELSE (ExpNeg(((t - r.t) * 1000) \div fade) * r.strength) \div 10]]

\* g (lines 106-110): the Gaussian ring of live ripple a at point p
response(p, a) ==
    LET d == hypot(5 * p.x - 10 * a.x, 5 * p.y - 10 * a.y)
        e == d - a.R
    IN  (ExpNeg((e * e * 10) \div ((2 * a.sigma * a.sigma) \div 100)) * a.w) \div 1000

\* the dot drawn without Math.min(1, bump)
DiscUnclamped(p, act) ==
    LET g == [k \in 1..Len(act) |-> response(p, act[k])]
    IN  [x |-> p.x, y |-> p.y, g |-> g,
         bump |-> SumSeq(g),
         alpha |-> MaxSeq(g, 0),
         rad |-> Max(MinRadius, BaseRadius + (Amplitude * SumSeq(g)) \div 1000),
         opacity |-> FloorOpacity
                     + (OpacitySpan * Max(0, Min(1000, MaxSeq(g, 0)))) \div 1000,
         shown |-> \A k \in 1..Len(act) : ~act[k].nan]

\* the dot drawn with globalAlpha left at the 1 the pass ends on
DiscOpaque(p, act) ==
    LET g == [k \in 1..Len(act) |-> response(p, act[k])]
    IN  [x |-> p.x, y |-> p.y, g |-> g,
         bump |-> SumSeq(g),
         alpha |-> MaxSeq(g, 0),
         rad |-> Max(MinRadius,
                     BaseRadius + (Amplitude * Min(1000, SumSeq(g))) \div 1000),
         opacity |-> 1000,
         shown |-> \A k \in 1..Len(act) : ~act[k].nan]

\* one dot (lines 103-118): bump sums and alpha maximises the responses g
\* of the live ripples; rad and globalAlpha are clamped.  A NaN weight makes
\* rad NaN, and arc() with a NaN radius draws nothing.
Disc(p, act) ==
    LET g == [k \in 1..Len(act) |-> response(p, act[k])]
    IN  [x |-> p.x, y |-> p.y, g |-> g,
         bump |-> SumSeq(g),
         alpha |-> MaxSeq(g, 0),
         rad |-> Max(MinRadius,
                     BaseRadius + (Amplitude * Min(1000, SumSeq(g))) \div 1000),
         opacity |-> FloorOpacity
                     + (OpacitySpan * Max(0, Min(1000, MaxSeq(g, 0)))) \div 1000,
         shown |-> \A k \in 1..Len(act) : ~act[k].nan]

\* a callback that drew nothing
NoFrame == [drawn |-> FALSE, active |-> <<>>, discs |-> <<>>]

\* the frame of one draw pass (lines 79-120) over points pts at time t
paint(pts, rs, t, fade) ==
    [drawn |-> TRUE,
     active |-> active(rs, t, fade),
     discs |-> [j \in 1..Len(pts) |-> Disc(pts[j], active(rs, t, fade))]]

\* draw that also drops the ripples it found faded
drawPruning(hasCtx, pending) ==
    /\ lastEmit' = lastEmit
    /\ ripples' = SelectSeq(ripples, LAMBDA r : clock - r.t <= fadeSeconds)
    /\ IF ~hasCtx
       THEN /\ frames' = frames
            /\ raf' = raf
            /\ frameReqs' = pending
            /\ painted' = NoFrame
       ELSE /\ frames' = frames + 1
            /\ painted' = paint(points', ripples, clock, fadeSeconds)
            /\ raf' = NewHandle(pending \cup {raf})
            /\ frameReqs' = pending \cup {NewHandle(pending \cup {raf})}

\* draw without the closing requestAnimationFrame
drawNoReschedule(hasCtx, pending) ==
    /\ UNCHANGED store
    /\ frames' = IF hasCtx THEN frames + 1 ELSE frames
    /\ painted' = IF hasCtx THEN paint(points', ripples, clock, fadeSeconds)
                  ELSE NoFrame
    /\ raf' = raf
    /\ frameReqs' = pending

\* draw (lines 76-123), run with `pending` ticks still requested.  The pass
\* paints one frame over the points as they are now, and ends by requesting
\* the next tick (line 122).
draw(hasCtx, pending) ==
    /\ UNCHANGED store
    /\ IF ~hasCtx
       THEN /\ frames' = frames
            /\ raf' = raf
            /\ frameReqs' = pending
            /\ painted' = NoFrame
       ELSE /\ frames' = frames + 1
            /\ painted' = paint(points', ripples, clock, fadeSeconds)
            /\ raf' = NewHandle(pending \cup {raf})
            /\ frameReqs' = pending \cup {NewHandle(pending \cup {raf})}

----------------------------------------------------------------------------
Created ==
    /\ fadeSeconds \in FadeChoices
    /\ auto \in BOOLEAN
    /\ autoEveryMs \in AutoEveryChoices
    /\ reduceMotion \in BOOLEAN
    /\ hasContext2d \in BOOLEAN
    /\ phase = "created"
    /\ clock = 0
    /\ ctx = FALSE
    /\ dpr = 100
    /\ width = 0
    /\ height = 0
    /\ backing = <<0, 0>>
    /\ points = <<>>
    /\ ripples = <<>>
    /\ raf = 0
    /\ autoTimer = 0
    /\ lastEmit = 0
    /\ frameReqs = {}
    /\ intervals = {}
    /\ roActive = FALSE
    /\ listeners = FALSE
    /\ frames = 0
    /\ last = [op |-> "none", acc |-> FALSE, pruned |-> 0, any |-> FALSE,
               ptr |-> FALSE]
    /\ painted = NoFrame
    /\ moves = [t |-> -1, acc |-> FALSE, accT |-> -1]

Init == spacing \in SpacingChoices /\ Created

\* The latest move attempt (t, acc) and the latest accepted one (accT), each
\* forgotten once RateLimitMs have passed: no later attempt is that close.
Aged(now) ==
    LET keep == moves.t >= 0 /\ now - moves.t < RateLimitMs
        keepAcc == moves.accT >= 0 /\ now - moves.accT < RateLimitMs
    IN  [t |-> IF keep THEN moves.t ELSE -1,
         acc |-> keep /\ moves.acc,
         accT |-> IF keepAcc THEN moves.accT ELSE -1]

\* performance.now() moves on between callbacks
Advance(d) ==
    /\ phase \in {"created", "mounted"}
    /\ clock + d <= MaxTime
    /\ clock' = clock + d
    /\ moves' = Aged(clock + d)
    /\ painted' = NoFrame
    /\ UNCHANGED <<props, env, phase, geom, store, sched, hooks, frames, last>>

----------------------------------------------------------------------------
\* stopAuto that zeroes the handle without clearInterval
stopAutoNoClear ==
    /\ autoTimer' = 0
    /\ intervals' = intervals

\* stopAuto (lines 144-147)
stopAuto ==
    /\ autoTimer' = 0
    /\ intervals' = {tm \in intervals : tm.id # autoTimer}

\* startAuto without the early return on ~auto
startAutoUnconditional ==
    LET live == {tm \in intervals : tm.id # autoTimer}
        id == NewHandle({tm.id : tm \in live})
    IN  /\ autoTimer' = id
        /\ intervals' = live \cup {[id |-> id, due |-> clock + autoEveryMs]}

\* startAuto (lines 134-143): stopAuto, then setInterval when auto is set
startAuto ==
    IF ~auto
    THEN stopAuto
    ELSE LET live == {tm \in intervals : tm.id # autoTimer}
             id == NewHandle({tm.id : tm \in live})
         IN  /\ autoTimer' = id
             /\ intervals' = live \cup {[id |-> id, due |-> clock + autoEveryMs]}

\* onMount (lines 150-172).  A throw inside resize leaves the callback
\* before anything is acquired, and no teardown function is returned.
onMount(in) ==
    /\ phase = "created"
    /\ resize(in)
    /\ IF ~hasContext2d
       THEN /\ phase' = "failed"
            /\ painted' = NoFrame
            /\ UNCHANGED <<store, sched, hooks, frames>>
       ELSE /\ phase' = "mounted"
            /\ roActive' = TRUE
            /\ listeners' = TRUE
            /\ IF ~reduceMotion
               THEN /\ raf' = NewHandle(frameReqs)
                    /\ frameReqs' = frameReqs \cup {NewHandle(frameReqs)}
                    /\ startAuto
                    /\ painted' = NoFrame
                    /\ UNCHANGED <<store, frames>>
               ELSE /\ draw(hasContext2d, frameReqs)
                    /\ UNCHANGED <<autoTimer, intervals>>
    /\ UNCHANGED <<last, props, env, clock, moves>>

\* the teardown function onMount returns (lines 165-171)
teardown ==
    /\ phase = "mounted"
    /\ phase' = "destroyed"
    /\ roActive' = FALSE
    /\ raf' = raf
    /\ frameReqs' = frameReqs \ {raf}
    /\ stopAuto
    /\ listeners' = FALSE
    /\ painted' = NoFrame
    /\ UNCHANGED <<last, props, env, clock, geom, store, frames, moves>>

\* the ResizeObserver callback (line 152)
onResize(in) ==
    /\ roActive
    /\ resize(in)
    /\ painted' = NoFrame
    /\ UNCHANGED <<last, props, env, phase, clock, store, sched, hooks, frames, moves>>

\* a requested animation frame fires and runs draw (lines 122, 156)
onFrame(h) ==
    /\ h \in frameReqs
    /\ frames < MaxFrames
    /\ UNCHANGED <<last, props, env, phase, clock, geom, autoTimer, intervals, hooks, moves>>
    /\ draw(ctx, frameReqs \ {h})

\* onPointer (lines 125-128)
onPointer(p) ==
    /\ listeners
    /\ addRipple(p[1], p[2], MoveStrength)
    /\ Room
    /\ last' = Outcome("move", MoveStrength)
    /\ moves' = [t |-> clock,
                  acc |-> last'.acc,
                  accT |-> IF last'.acc THEN clock ELSE moves.accT]
    /\ painted' = NoFrame
    /\ UNCHANGED <<props, env, phase, clock, geom, sched, hooks, frames>>

\* onClick (lines 129-132)
onClick(p) ==
    /\ listeners
    /\ addRipple(p[1], p[2], ClickStrength)
    /\ Room
    /\ last' = Outcome("click", ClickStrength)
    /\ painted' = NoFrame
    /\ UNCHANGED <<props, env, phase, clock, geom, sched, hooks, frames, moves>>

\* the setInterval callback (lines 137-142); the interval then runs again
onAutoTimer(tm, f) ==
    /\ tm \in intervals
    /\ clock >= tm.due
    /\ addRipple((width * f[1]) \div 100, (height * f[2]) \div 100, AutoStrength)
    /\ Room
    /\ intervals' = (intervals \ {tm}) \cup {[id |-> tm.id, due |-> clock + autoEveryMs]}
    /\ last' = Outcome("auto", AutoStrength)
    /\ painted' = NoFrame
    /\ UNCHANGED <<props, env, phase, clock, geom, raf, autoTimer, frameReqs,
                   hooks, frames, moves>>

Next ==
    \/ \E d \in Steps : Advance(d)
    \/ \E in \in ResizeInputs : onMount(in)
    \/ \E in \in ResizeInputs : onResize(in)
    \/ \E h \in frameReqs : onFrame(h)
    \/ \E p \in PointerPos : onPointer(p)
    \/ \E p \in PointerPos : onClick(p)
    \/ \E tm \in intervals, f \in AutoDrift : onAutoTimer(tm, f)
    \/ teardown

Spec == Init /\ [][Next]_vars

\* The grid builder on its own: mounts and resizes over a wider range of
\* surfaces, among them the 520 x 520 one of the documented scenario.
\* A window of no size (a hidden frame) gives surfaces of width or height 0.
GridInputs ==
    ResizeInputs \cup
        {<<0, 0, 0>> \o InnerSize, <<52, 27, 300>> \o InnerSize,
         <<520, 520, 100>> \o InnerSize, <<100, 30, 200>> \o InnerSize,
         <<27, 26, 0>> \o InnerSize, <<0, 0, 100, 0, 0>>,
         <<0, 30, 100, 0, 30>>, <<30, 0, 100, 30, 0>>}
GridSpacings == SpacingChoices \cup {7}

InitGrid == spacing \in GridSpacings /\ Created

NextGrid ==
    \/ \E in \in GridInputs : onMount(in)
    \/ \E in \in GridInputs : onResize(in)

SpecGrid == InitGrid /\ [][NextGrid]_vars

----------------------------------------------------------------------------
\* Steps of the handlers, as the properties below name them
MoveStep == \E p \in PointerPos : onPointer(p)
ClickStep == \E p \in PointerPos : onClick(p)
AutoStep == \E tm \in intervals, f \in AutoDrift : onAutoTimer(tm, f)
FrameStep == \E h \in frameReqs : onFrame(h)

Last(sq) == sq[Len(sq)]
Front(sq) == SubSeq(sq, 1, Len(sq) - 1)
IsSuffix(a, b) == Len(a) <= Len(b) /\ a = SubSeq(b, Len(b) - Len(a) + 1, Len(b))

\* the step appended one ripple of this strength, stamped with the clock,
\* behind what was left of the store
Appended(strength) ==
    /\ ripples' # <<>>
    /\ Last(ripples').t = clock
    /\ Last(ripples').strength = strength
    /\ IsSuffix(Front(ripples'), ripples)
    /\ lastEmit' = clock

----------------------------------------------------------------------------
\* C1: in static mode (reduced motion signalled at mount) exactly one frame
\* is drawn and no animation tick is pending, whatever events follow.
C1_StaticDrawsOnce ==
    (reduceMotion /\ phase \in {"mounted", "destroyed"}) =>
        (frames = 1 /\ frameReqs = {})

----------------------------------------------------------------------------
\* C2 as stated: of two move attempts less than 90 ms apart the first is
\* accepted and the second is rejected, leaving the store unchanged.  It is
\* stated for a first attempt that an accepted insertion, still stored,
\* preceded, so that no violation rests on the initial lastEmit = 0.
C2_FirstAcceptedSecondRejected ==
    [][(/\ MoveStep
        /\ moves.t >= 0
        /\ clock - moves.t < RateLimitMs
        /\ \E i \in 1..Len(ripples) : ripples[i].t < moves.t) =>
          (moves.acc /\ ~moves'.acc /\ UNCHANGED store)]_vars

\* C2 as amended: a move attempt made less than 90 ms after an accepted move
\* attempt is rejected and leaves the store unchanged.
C2_MoveAfterAcceptedMoveRejected ==
    [][(MoveStep /\ moves.accT >= 0 /\ clock - moves.accT < RateLimitMs) =>
          (~moves'.acc /\ UNCHANGED store)]_vars

C2_Witness ==
    /\ last.op = "move"
    /\ ~moves.acc
    /\ moves.accT >= 0
    /\ moves.t > moves.accT
    /\ ripples # <<>>

----------------------------------------------------------------------------
\* C3: a click is always accepted: with fadeSeconds > 0 the click handler
\* appends a ripple of strength 1.6 that is in the store when it returns,
\* however recent the last accepted insertion is.
C3_ClickAlwaysAccepted ==
    [][(ClickStep /\ fadeSeconds > 0) => Appended(ClickStrength)]_vars

C3_Witness ==
    /\ last.op = "click"
    /\ fadeSeconds > 0
    /\ Len(ripples) = 2
    /\ ripples[1].t = clock
    /\ ripples[2].t = clock
    /\ ripples[2].strength = ClickStrength

----------------------------------------------------------------------------
\* C4 as stated: every firing of the auto-pulse timer inserts one ripple of
\* strength 0.9, whatever insertions preceded it (fadeSeconds > 0).
C4_EveryFiringInserts ==
    [][(AutoStep /\ fadeSeconds > 0) => Appended(AutoStrength)]_vars

\* C4 as amended: a firing at least 90 ms after the last accepted insertion
\* (lastEmit, 0 at the start) inserts one ripple of strength 0.9; a firing
\* less than 90 ms after it leaves the store unchanged (fadeSeconds > 0).
C4_FiringInsertsUnlessRateLimited ==
    [][(AutoStep /\ fadeSeconds > 0) =>
          IF clock - lastEmit >= RateLimitMs
          THEN Appended(AutoStrength)
          ELSE UNCHANGED store]_vars

C4_Witness ==
    /\ last.op = "auto"
    /\ last.acc
    /\ fadeSeconds > 0
    /\ Len(ripples) = 2
    /\ ripples[1].strength # AutoStrength
    /\ ripples[2].strength = AutoStrength

----------------------------------------------------------------------------
\* C5 as stated: no state holds a stored ripple older than fadeSeconds * 1.2.
C5_NoStoredRippleOlderThanGrace ==
    \A i \in 1..Len(ripples) :
        10 * (clock - ripples[i].t) <= GraceTenths * fadeSeconds

\* C5 as amended: pruning runs only inside an accepted insertion, so it is
\* at the time of the last accepted insertion (lastEmit) that every stored
\* ripple is younger than fadeSeconds * 1.2.
C5_YoungerThanGraceAtLastEmit ==
    \A i \in 1..Len(ripples) :
        10 * (lastEmit - ripples[i].t) < GraceTenths * fadeSeconds

C5_Witness ==
    /\ last.acc
    /\ last.pruned > 0
    /\ Len(ripples) = 2
    /\ clock > lastEmit

----------------------------------------------------------------------------
\* C6: after teardown nothing acquired is left (no pending tick, no running
\* interval, no listener, no resize observer), and so no frame is drawn, no
\* ripple inserted and no grid rebuilt afterwards.
C6_TeardownReleasesAll ==
    /\ [](phase = "destroyed" =>
            (frameReqs = {} /\ intervals = {} /\ ~listeners /\ ~roActive))
    /\ [][phase = "destroyed" => UNCHANGED <<frames, store, geom>>]_vars

C6_Witness ==
    /\ phase = "destroyed"
    /\ auto
    /\ ~reduceMotion
    /\ frames > 0
    /\ last.op = "auto"

----------------------------------------------------------------------------
\* C7 as stated: while mounted the auto-pulse timer runs exactly when auto
\* is set, in either mode.
C7_TimerRunsIffAuto ==
    phase = "mounted" => ((intervals # {}) <=> auto)

\* C7 as amended: while mounted the timer runs exactly when auto is set and
\* the mode is animated; in static mode it is never started.
C7_TimerRunsIffAutoAnimated ==
    phase = "mounted" =>
        /\ (intervals # {}) <=> (auto /\ ~reduceMotion)
        /\ (autoTimer # 0) <=> (auto /\ ~reduceMotion)
        /\ \A tm \in intervals : tm.id = autoTimer

C7_Witness ==
    /\ phase = "mounted"
    /\ auto
    /\ ~reduceMotion
    /\ last.op = "auto"
    /\ intervals # {}

----------------------------------------------------------------------------
\* C8 as stated: a draw pass leaves the ripple list, grid points, width,
\* height, lastEmit and the animation and timer handles as they were.
C8_DrawKeepsAllState ==
    [][FrameStep =>
          UNCHANGED <<ripples, points, width, height, lastEmit, raf, autoTimer>>]_vars

\* C8 as amended: a draw pass leaves the ripple list, grid points, width,
\* height, lastEmit and the timer handle as they were; with a context it
\* replaces the animation handle raf by that of the tick it requests.
C8_DrawKeepsAllButRaf ==
    [][FrameStep =>
          /\ UNCHANGED <<ripples, points, width, height, lastEmit, autoTimer, intervals>>
          /\ ctx => (raf' # raf /\ raf' \in frameReqs' /\ raf \notin frameReqs')]_vars

C8_Witness ==
    /\ frames >= 2
    /\ ripples # <<>>
    /\ raf \in frameReqs
    /\ phase = "mounted"

----------------------------------------------------------------------------
\* C9 as stated: spacing 26 on a 520 x 520 surface gives a 20 x 20 lattice
\* (400 points) with zero offset: the first point is at (0, 0).
C9_LatticeAtOrigin ==
    (ctx /\ width = 520 /\ height = 520 /\ spacing = 26) =>
        (Len(points) = 400 /\ points[1] = [x |-> 0, y |-> 0])

\* C9 as amended: spacing 26 on a 520 x 520 surface gives a 20 x 20 lattice
\* (400 points) with offset 13 on both axes: point (c, r) is at
\* (13 + 26 c, 13 + 26 r), the first at (13, 13), the last at (507, 507).
C9_LatticeCentred ==
    (ctx /\ width = 520 /\ height = 520 /\ spacing = 26) =>
        /\ Len(points) = 400
        /\ \A r \in 0..19, c \in 0..19 :
              points[20 * r + c + 1] = [x |-> 2 * (13 + 26 * c), y |-> 2 * (13 + 26 * r)]

C9_Witness ==
    /\ ctx
    /\ width = 520
    /\ height = 520
    /\ spacing = 26
    /\ Len(points) = 400

----------------------------------------------------------------------------
\* C10: the prune that ends an accepted insertion leaves no ripple with
\* spawn time <= cutoff and keeps every ripple with spawn time > cutoff that
\* the store held, in the same order (the new ripple behind them).
KeptBefore(j, cutoff) == Cardinality({k \in 1..j : 10 * ripples[k].t > cutoff})

C10_PrunePostcondition ==
    [][((MoveStep \/ ClickStep \/ AutoStep) /\ last'.acc) =>
          LET cutoff == 10 * clock - GraceTenths * fadeSeconds
          IN  /\ \A i \in 1..Len(ripples') : 10 * ripples'[i].t > cutoff
              /\ \A j \in 1..Len(ripples) :
                    10 * ripples[j].t > cutoff =>
                        /\ KeptBefore(j, cutoff) <= Len(ripples')
                        /\ ripples'[KeptBefore(j, cutoff)] = ripples[j]
              /\ Len(ripples') = KeptBefore(Len(ripples), cutoff)
                                 + (IF 10 * clock > cutoff THEN 1 ELSE 0)]_vars

C10_Witness ==
    /\ last.acc
    /\ last.pruned = 1
    /\ Len(ripples) = 3
    /\ ripples[1].t < ripples[2].t
    /\ ripples[3].t = clock

----------------------------------------------------------------------------
\* C11: a surface that cannot supply a 2D context never raises an error:
\* mount completes (the component ends mounted, not failed) and a draw pass
\* changes nothing.
C11_NoContextNoError ==
    ~hasContext2d => (phase # "failed" /\ frames = 0 /\ frameReqs = {})

----------------------------------------------------------------------------
\* C12: in animated mode, from mount to teardown, exactly one tick is
\* pending in every state between callbacks, and it is the one raf holds:
\* every executed tick has requested exactly one further tick.
C12_OneTickPending ==
    (phase = "mounted" /\ ~reduceMotion) =>
        (raf # 0 /\ frameReqs = {raf})

C12_Witness ==
    /\ phase = "mounted"
    /\ ~reduceMotion
    /\ frames >= 2
    /\ frameReqs = {raf}
    /\ last.op = "auto"
    /\ width = 26

----------------------------------------------------------------------------
\* C16: after every resize (the one in mount and each observer callback)
\* the device-pixel ratio in use is within [1, 2] and the grid points are
\* the grid builder's result for the current width, height and spacing.
C16_GeometryConsistent ==
    phase # "created" =>
        /\ dpr \in 100..200
        /\ points = buildGrid(width, height, spacing)

----------------------------------------------------------------------------
\* C18: a pointer-move insertion is rejected if and only if some insertion,
\* of any origin, was accepted less than 90 ms before it; a move made when
\* no insertion has been accepted yet is accepted, whatever the clock reads.
C18_MoveRejectedIffRecentAccept ==
    [][MoveStep =>
          (~last'.acc <=> (last.any /\ clock - lastEmit < RateLimitMs))]_vars

----------------------------------------------------------------------------
Count(sq, r) == Cardinality({i \in 1..Len(sq) : sq[i] = r})

InsertStep == MoveStep \/ ClickStep \/ AutoStep

\* C19: with fadeSeconds > 0 pruning never removes a live ripple: a callback
\* keeps every stored ripple whose age at that callback is at most
\* fadeSeconds, and an accepted insertion stores its own ripple; so an
\* accepted ripple is stored at every callback up to fadeSeconds after its
\* spawn time.
C19_LiveRipplesKept ==
    [][fadeSeconds > 0 =>
          /\ \A i \in 1..Len(ripples) :
                clock' - ripples[i].t <= fadeSeconds =>
                    Count(ripples', ripples[i]) >= Count(ripples, ripples[i])
          /\ (InsertStep /\ last'.acc) =>
                /\ ripples' # <<>>
                /\ Last(ripples').t = clock
                /\ Count(ripples', Last(ripples')) = Count(ripples, Last(ripples')) + 1]_vars

C19_Witness ==
    /\ fadeSeconds > 0
    /\ last.acc
    /\ last.pruned = 1
    /\ lastEmit = clock
    /\ Len(ripples) = 2
    /\ ripples[1].t < clock
    /\ clock - ripples[1].t <= fadeSeconds
    /\ ripples[2].t = clock

----------------------------------------------------------------------------
\* C20: a rejected insertion has no effect (ripple list and lastEmit
\* unchanged, nothing pruned); an accepted one stamps lastEmit with its
\* ripple's spawn time, so lastEmit is the spawn time of the most recently
\* accepted ripple; and every stored ripple has strength 0.9, 1 or 1.6.
C20_RejectedNoEffect ==
    /\ [][InsertStep =>
             IF last'.acc
             THEN lastEmit' = clock
             ELSE UNCHANGED store]_vars
    /\ [][lastEmit' # lastEmit => (InsertStep /\ last'.acc)]_vars
    /\ [](ripples # <<>> => Last(ripples).t = lastEmit)
    /\ [](\A i \in 1..Len(ripples) :
             ripples[i].strength \in {AutoStrength, MoveStrength, ClickStrength})

C20_Witness ==
    /\ last.op = "move"
    /\ ~last.acc
    /\ moves.t = clock
    /\ Len(ripples) = 2
    /\ 10 * (clock - ripples[1].t) >= GraceTenths * fadeSeconds
    /\ ripples[2].t = lastEmit
    /\ ripples[2].strength = AutoStrength

----------------------------------------------------------------------------
\* the least n with n * s >= w, for w >= 0 and s > 0
CeilOf(w, s) == CHOOSE n \in 0..w : n * s >= w /\ (n = 0 \/ (n - 1) * s < w)

\* C15: whenever the grid builder has run, for the current width W, height
\* H and spacing s > 0 the points are exactly ceil(W/s) x ceil(H/s) of them,
\* row by row, point (c, r) at (offsetX + c s, offsetY + r s); on each axis
\* the margin before the first point equals the margin after the last; and
\* a surface of width or height 0 has no points.
C15_CentredLattice ==
    ctx =>
        LET cols == CeilOf(width, spacing)
            rows == CeilOf(height, spacing)
        IN  /\ Len(points) = cols * rows
            /\ (width = 0 \/ height = 0) => points = <<>>
            /\ points # <<>> =>
                  /\ \A r \in 0..(rows - 1), c \in 0..(cols - 1) :
                        points[r * cols + c + 1] =
                            [x |-> points[1].x + 2 * c * spacing,
                             y |-> points[1].y + 2 * r * spacing]
                  /\ points[1].x = 2 * width - Last(points).x
                  /\ points[1].y = 2 * height - Last(points).y
                  /\ points[1].x > 0
                  /\ points[1].y > 0

C15_Witness ==
    /\ ctx
    /\ width = 27
    /\ height = 26
    /\ spacing = 7
    /\ Len(points) = 16
    /\ points[1] = [x |-> 6, y |-> 5]

C15_WitnessEmpty ==
    /\ ctx
    /\ width = 30
    /\ height = 0
    /\ points = <<>>

----------------------------------------------------------------------------
\* C13: with auto = false and no pointer-move or click event so far, the
\* ripple store is empty, whatever mounts, resizes and frame ticks have
\* run; and a frame drawn then has one dot per grid point, each with the
\* resting radius (baseRadius) and the floor opacity 0.3.
C13_IdleFrameResting ==
    (~auto /\ ~last.ptr) =>
        /\ ripples = <<>>
        /\ painted.drawn =>
              /\ Len(painted.discs) = Len(points)
              /\ \A j \in 1..Len(points) :
                    /\ painted.discs[j].x = points[j].x
                    /\ painted.discs[j].y = points[j].y
                    /\ painted.discs[j].shown
                    /\ painted.discs[j].rad = BaseRadius
                    /\ painted.discs[j].opacity = FloorOpacity

C13_Witness ==
    /\ ~auto
    /\ ~last.ptr
    /\ ~reduceMotion
    /\ frames = 2
    /\ clock > 0
    /\ painted.drawn
    /\ Len(painted.discs) = 2
    /\ width = 26

----------------------------------------------------------------------------
\* the store positions of the ripples whose age at `now` is at most fade
LiveAt(now, fade) == {i \in 1..Len(ripples) : now - ripples[i].t <= fade}

----------------------------------------------------------------------------
\* C17: every dot of every frame is clamped: with bump the sum and alpha the
\* maximum of its per-ripple responses, its radius is
\* max(0.2, baseRadius + amplitude * min(1, bump)) and its opacity
\* 0.3 + 0.7 * clamp(alpha, 0, 1); so the opacity lies in [0.3, 1] and the
\* radius in [0.2, baseRadius + amplitude], however many ripples overlap.
C17_DotClamped ==
    painted.drawn =>
        \A j \in 1..Len(painted.discs) :
            LET dot == painted.discs[j]
            IN  /\ dot.shown
                /\ \A k \in 1..Len(dot.g) : dot.g[k] >= 0
                /\ dot.bump = SumSeq(dot.g)
                /\ \A k \in 1..Len(dot.g) : dot.alpha >= dot.g[k]
                /\ dot.alpha = 0 \/ \E k \in 1..Len(dot.g) : dot.alpha = dot.g[k]
                /\ dot.rad = IF dot.bump >= 1000 THEN BaseRadius + Amplitude
                             ELSE BaseRadius + (Amplitude * dot.bump) \div 1000
                /\ dot.opacity = IF dot.alpha >= 1000 THEN FloorOpacity + OpacitySpan
                                 ELSE FloorOpacity + (OpacitySpan * dot.alpha) \div 1000
                /\ dot.opacity \in FloorOpacity..1000
                /\ dot.rad \in MinRadius..(BaseRadius + Amplitude)

C17_Witness ==
    /\ painted.drawn
    /\ Len(painted.active) >= 2
    /\ \E j \in 1..Len(painted.discs) :
          /\ painted.discs[j].bump > 1000
          /\ painted.discs[j].alpha < 1000
          /\ painted.discs[j].rad = BaseRadius + Amplitude

====
